---- MODULE Spec2Model ----
(***************************************************************************)
(* MovieCard (src/src/components/MovieCard.js) and its caller App          *)
(* (src/src/components/App.js).                                            *)
(*                                                                         *)
(* MovieCard is a function of one props object.  Its parameter is the      *)
(* destructuring pattern { title, posterSrc = <default>, genres }; its     *)
(* body builds the element <div className="movie-card"> with an <img>, an  *)
(* <h2> and a <small> whose text is genres.join(", ").                     *)
(*                                                                         *)
(* The model runs invocations one after the other (JavaScript runs a       *)
(* function body to completion).  Spec looks at each invocation on its     *)
(* own.  SpecSeq looks at consecutive invocations: prev keeps the props,   *)
(* the bindings and the result of the last finished invocation, so that    *)
(* two invocations can be compared.                                        *)
(***************************************************************************)
EXTENDS Integers, Sequences, FiniteSets, TLC

VARIABLES
    props,      \* the props object of the current invocation of MovieCard
    resolved,   \* the bindings title, posterSrc, genres made by the parameter pattern
    output,     \* the element MovieCard returned, or the error it threw
    pc,         \* "idle" | "called" | "done" | "threw"
    prev        \* SpecSeq: props, bindings and result of the last finished invocation

vars == <<props, resolved, output, pc, prev>>

-----------------------------------------------------------------------------
(* JavaScript values, tagged by type.                                      *)

Undefined == [t |-> "undefined"]
Null      == [t |-> "null"]
Num(n)    == [t |-> "number", n |-> n]
Str(s)    == [t |-> "string", s |-> s]
Arr(a)    == [t |-> "array", a |-> a]

-----------------------------------------------------------------------------
(* Literals of the source.                                                 *)

DefaultPosterSrc == Str("http://i.imgur.com/bJw8ndW.png")

AppTitle     == Str("Mad Max")
AppPosterURL == Str("http://image.tmdb.org/t/p/w342/kqjL17yufvn9OVLyXYpvtyrFfak.jpg")
AppGenres    == <<"Action", "Adventure", "Science Fiction", "Thriller">>
AppGenresArr == Arr(AppGenres)

AppProps == [title |-> AppTitle, posterSrc |-> AppPosterURL, genres |-> AppGenresArr]

JoinSeparator == ", "

-----------------------------------------------------------------------------
(* Bounds and the props objects a parent may pass.                         *)

MaxGenres == 2

Min(a, b) == IF a < b THEN a ELSE b

GenreArrays == {Arr(SubSeq(AppGenres, 1, k)) : k \in 0..Min(MaxGenres, Len(AppGenres))}

TitleInputs  == {Undefined, Num(0), Str(""), AppTitle}
PosterInputs == {Undefined, Null, Num(0), Str(""), Str("custom.png")}
GenresInputs == {Undefined, Null, Str("Action")} \cup GenreArrays
ExtraInputs  == {Num(5)}

Declared  == {"title", "posterSrc", "genres"}
ExtraKey  == "rating"
Keys      == Declared \cup {ExtraKey}

InputsOf(k) ==
    CASE k = "title"     -> TitleInputs
      [] k = "posterSrc" -> PosterInputs
      [] k = "genres"    -> GenresInputs
      [] OTHER           -> ExtraInputs

\* every object whose keys are a subset of Keys, each key mapped to one of its inputs
Bags == UNION {{b \in [D -> UNION {InputsOf(k) : k \in D}] :
                    \A k \in D : b[k] \in InputsOf(k)} : D \in SUBSET Keys}

\* the props objects used when two consecutive invocations are compared: the
\* declared keys only, the title absent or App's
SeqBags == {b \in Bags : /\ ExtraKey \notin DOMAIN b
                         /\ ("title" \in DOMAIN b => b["title"] \in {Undefined, AppTitle})}

NoBag     == [t |-> "none"]
NoCall    == [t |-> "none"]
NoElement == [t |-> "none"]

-----------------------------------------------------------------------------
(* The parameter pattern of MovieCard.                                     *)

\* p.k in JavaScript: the value of the key, undefined when the object has no such key
Get(p, k) == IF k \in DOMAIN p THEN p[k] ELSE Undefined

Falsy(v) == v \in {Undefined, Null, Num(0), Str("")}

\* mutant: the default written as  p.k || d, which also replaces falsy values
WithDefaultOr(v, d) == IF Falsy(v) THEN d ELSE v

\* mutant: the default is used on null instead of on undefined
WithDefaultNull(v, d) == IF v = Null THEN d ELSE v

\* a binding with a default:  k = d  binds d exactly when p.k === undefined
WithDefault(v, d) == IF v = Undefined THEN d ELSE v

\* mutant: the default is used only when the key is missing ("posterSrc" in props)
DestructureIn(p) ==
    [title     |-> Get(p, "title"),
     posterSrc |-> IF "posterSrc" \in DOMAIN p THEN p["posterSrc"] ELSE DefaultPosterSrc,
     genres    |-> Get(p, "genres")]

\* mutant: the default of posterSrc is left out of the pattern
DestructureNoDefault(p) ==
    [title     |-> Get(p, "title"),
     posterSrc |-> Get(p, "posterSrc"),
     genres    |-> Get(p, "genres")]

\* mutant: title and genres are given defaults too
DestructureAllDefaults(p) ==
    [title     |-> WithDefault(Get(p, "title"), Str("")),
     posterSrc |-> WithDefault(Get(p, "posterSrc"), DefaultPosterSrc),
     genres    |-> WithDefault(Get(p, "genres"), Arr(<<>>))]

\* mutant: the whole props object is kept, the default merged into it
DestructureSpread(p) ==
    [k \in DOMAIN p \cup {"title", "posterSrc", "genres"} |->
        IF k = "posterSrc" THEN WithDefault(Get(p, k), DefaultPosterSrc) ELSE Get(p, k)]

\* mutant: a poster kept from the props of the invocation before is used before
\* the default
DestructureStale(p) ==
    [title     |-> Get(p, "title"),
     posterSrc |-> WithDefault(Get(p, "posterSrc"),
                       IF "props" \in DOMAIN prev
                       THEN WithDefault(Get(prev.props, "posterSrc"), DefaultPosterSrc)
                       ELSE DefaultPosterSrc),
     genres    |-> Get(p, "genres")]

Destructure(p) ==
    [title     |-> Get(p, "title"),
     posterSrc |-> WithDefault(Get(p, "posterSrc"), DefaultPosterSrc),
     genres    |-> Get(p, "genres")]

-----------------------------------------------------------------------------
(* The body of MovieCard.                                                  *)

RECURSIVE JoinFrom(_, _, _)
JoinFrom(a, sep, i) ==
    IF i > Len(a) THEN ""
    ELSE IF i = Len(a) THEN a[i]
    ELSE a[i] \o sep \o JoinFrom(a, sep, i + 1)

\* Array.prototype.join on an array of strings
Join(a, sep) == Str(JoinFrom(a, sep, 1))

\* genres.join is a function only when genres is an array: on undefined and null
\* the property access throws a TypeError, on a string or a number the call does
CanJoin(v) == v.t = "array"

Render(b) ==
    [type      |-> "div",
     className |-> "movie-card",
     img       |-> [src |-> b.posterSrc, alt |-> b.title],
     h2        |-> b.title,
     small     |-> Join(b.genres.a, JoinSeparator)]

TypeError == [t |-> "error", name |-> "TypeError", at |-> "genres.join"]

-----------------------------------------------------------------------------
(* Actions.                                                                *)

Finished == pc \in {"done", "threw"}

\* the invocation that just finished becomes the previous one
Remember ==
    IF Finished THEN [props |-> props, resolved |-> resolved, output |-> output]
    ELSE prev

Invoke(bag, last) ==
    /\ pc # "called"
    /\ props' = bag
    /\ resolved' = NoBag
    /\ output' = NoElement
    /\ prev' = last
    /\ pc' = "called"

\* App renders <MovieCard title={title} posterSrc={posterURL} genres={genresArr} />
App == Invoke(AppProps, prev)

\* any other parent renders <MovieCard ... /> with a props object of its own
Parent == \E bag \in Bags : Invoke(bag, prev)

\* the same two callers, the invocation before them remembered
AppSeq == Invoke(AppProps, Remember)

ParentSeq == \E bag \in SeqBags : Invoke(bag, Remember)

\* mutant: the default is written back into the caller's props object
MovieCardWritesBack ==
    /\ pc = "called"
    /\ resolved' = Destructure(props)
    /\ IF CanJoin(Destructure(props).genres)
       THEN /\ output' = Render(Destructure(props))
            /\ pc' = "done"
       ELSE /\ output' = TypeError
            /\ pc' = "threw"
    /\ props' = [k \in DOMAIN props \cup {"posterSrc"} |->
                    IF k = "posterSrc" THEN Destructure(props).posterSrc ELSE props[k]]
    /\ UNCHANGED prev

MovieCard ==
    /\ pc = "called"
    /\ resolved' = Destructure(props)
    /\ IF CanJoin(Destructure(props).genres)
       THEN /\ output' = Render(Destructure(props))
            /\ pc' = "done"
       ELSE /\ output' = TypeError
            /\ pc' = "threw"
    /\ UNCHANGED <<props, prev>>

Init ==
    /\ props = NoBag
    /\ resolved = NoBag
    /\ output = NoElement
    /\ pc = "idle"
    /\ prev = NoCall

Next == App \/ Parent \/ MovieCard

Spec == Init /\ [][Next]_vars

NextSeq == AppSeq \/ ParentSeq \/ MovieCard

SpecSeq == Init /\ [][NextSeq]_vars

-----------------------------------------------------------------------------
(* Properties.                                                             *)

Absent(p, k) == k \notin DOMAIN p \/ p[k] = Undefined

Present(p, k) == k \in DOMAIN p /\ p[k] # Undefined

\* C1: when the props object omits posterSrc or maps it to undefined, the
\* binding posterSrc is the declared default.
C1_DefaultWhenAbsent ==
    (Finished /\ Absent(props, "posterSrc")) => resolved.posterSrc = DefaultPosterSrc

\* MovieCard called with only title and genres
C1_Witness ==
    /\ pc = "done"
    /\ props = [title |-> AppTitle, genres |-> Arr(<<"Action", "Adventure">>)]
    /\ resolved = [title |-> AppTitle, posterSrc |-> DefaultPosterSrc,
                   genres |-> Arr(<<"Action", "Adventure">>)]

C3_NoDefaultPropagatesAbsence ==
    Finished =>
        /\ DOMAIN resolved = Declared
        /\ \A k \in {"title", "genres"} :
              /\ resolved[k] = Get(props, k)
              /\ Absent(props, k) => resolved[k] = Undefined
        /\ pc = "threw" => output = TypeError /\ ~CanJoin(resolved.genres)

\* the empty props object
C3_Witness ==
    /\ Finished
    /\ DOMAIN props = {}
    /\ resolved = [title |-> Undefined, posterSrc |-> DefaultPosterSrc,
                   genres |-> Undefined]

\* the poster values of the model that are urls of an image
GoodUrls == {DefaultPosterSrc, AppPosterURL, Str("custom.png")}

\* C4 (as claimed): the default poster is used also when a bad posterSrc is given.
C4_BadUrlGetsDefault ==
    (Finished /\ Present(props, "posterSrc") /\ props["posterSrc"] \notin GoodUrls)
        => resolved.posterSrc = DefaultPosterSrc

\* C5: the bindings are exactly title, posterSrc and genres, and each is decided
\* by the key of its own name alone: other keys of the props object are not read.
C5_OnlyDeclaredNames ==
    Finished =>
        /\ DOMAIN resolved = Declared
        /\ \A k \in Declared :
              resolved[k] \in {Get(props, k)} \cup
                              (IF k = "posterSrc" THEN {DefaultPosterSrc} ELSE {})

C5_Witness ==
    /\ Finished
    /\ ExtraKey \in DOMAIN props
    /\ DOMAIN resolved = Declared
    /\ \A k \in Declared : resolved[k] # props[ExtraKey]

\* C6: the binding posterSrc is never undefined.
C6_DefaultedNeverAbsent ==
    Finished => resolved.posterSrc # Undefined

C6_Witness ==
    /\ Finished
    /\ "posterSrc" \in DOMAIN props
    /\ props["posterSrc"] = Undefined
    /\ resolved.posterSrc # Undefined

\* two props objects that differ at most in keys that one omits and the other maps
\* to undefined
SameUpToAbsent(p, q) == \A k \in Keys : Get(p, k) = Get(q, k)

Remembered == "props" \in DOMAIN prev

\* C7: mapping a declared key to undefined is the same as omitting it: two
\* invocations whose props differ only in that way make the same bindings.
C7_AbsentMarkerIsOmission ==
    (Finished /\ Remembered /\ SameUpToAbsent(prev.props, props))
        => prev.resolved = resolved

C7_Witness ==
    /\ Finished /\ Remembered
    /\ DOMAIN prev.props = Declared
    /\ \A k \in Declared : prev.props[k] = Undefined
    /\ DOMAIN props = {}
    /\ prev.resolved = resolved

C9_NoSideEffects ==
    [][pc = "called" => (props' = props /\ prev' = prev)]_vars

C9_Witness ==
    /\ pc = "done"
    /\ "posterSrc" \notin DOMAIN props
    /\ resolved.posterSrc = DefaultPosterSrc

\* C10 (as claimed): with genres missing or undefined the body still returns an
\* element, no TypeError is thrown.
C10_AbsentGenresRenders ==
    (Finished /\ Absent(props, "genres")) => pc = "done"

====
